---- MODULE Spec2Model ----
(***************************************************************************)
(* BE369LockGroup (custom_components/be369group.py): the group of Schlage  *)
(* BE369 locks.  The state is the object's three collections (values,      *)
(* alarms, names), the "available" attribute the module puts on user-code  *)
(* values, and the persisted name file.  One action per handler: the two   *)
(* Z-Wave signal callbacks (valueadded, valuechanged) and the two services *)
(* (setcode, clearcode).  What a handler sends outward (writes to the      *)
(* locks, log lines, logbook entries, alerts, rewrites of the name file)   *)
(* is recorded in "last" for the handler that ran last.                    *)
(***************************************************************************)
EXTENDS Integers, Sequences, FiniteSets, TLC

----------------------------------------------------------------------------
(* Module constants (lines 27-30) *)

USER_CODE_ENTERED == 16
TOO_MANY_FAILED_ATTEMPTS == 96
NOT_USER_CODE_INDEXES == {0, 254, 255}
USER_CODE_STATUS_BYTE == 8

----------------------------------------------------------------------------
(* Bounds of the model *)

\* Longest code payload handed to setcode.
MaxLen == 2

\* The alarm reports of one sub-field that are counted as not yet matched by
\* an activity event; further ones are not counted.
MaxUnmatched == 2

----------------------------------------------------------------------------
(* Python's None and a present value *)

None == << >>
Some(x) == << x >>

Range(s) == { s[i] : i \in DOMAIN s }

----------------------------------------------------------------------------
(* The Z-Wave networks the callbacks are fed from.  Nodes 1 and 2 are      *)
(* locks (generic type entry control), node 3 is some other device that    *)
(* also carries user-code and alarm values.                                *)

Nodes == {1, 2, 3}
Locks == {1, 2}

generic(n) == IF n \in Locks THEN "ENTRY_CONTROL" ELSE "OTHER"

Value(n, cc, i) == [parent_id |-> n, command_class |-> cc, index |-> i]

\* Two locks that share slot 5, the three reserved indexes, and slot 5 and
\* an alarm value of the non-lock node.
CodesNetwork ==
    { Value(1, "USER_CODE", 5), Value(2, "USER_CODE", 5),
      Value(1, "USER_CODE", 0), Value(2, "USER_CODE", 254),
      Value(2, "USER_CODE", 255), Value(3, "USER_CODE", 5),
      Value(3, "ALARM", 0) }

\* One lock with slot 5 and its alarm values: sub-fields 0 (type) and 1
\* (value), and an index 2 that the two-element buffer has no place for; a
\* reserved index of the other lock.
AlarmsNetwork ==
    { Value(1, "USER_CODE", 5),
      Value(1, "ALARM", 0), Value(1, "ALARM", 1), Value(1, "ALARM", 2),
      Value(2, "USER_CODE", 254) }

\* One lock with slots 5 and 6 and the first of its alarm sub-fields.
SlotsNetwork ==
    { Value(1, "USER_CODE", 5), Value(1, "USER_CODE", 6),
      Value(1, "ALARM", 0) }

Networks == { CodesNetwork, AlarmsNetwork, SlotsNetwork }

UserCodeValues ==
    { v \in UNION Networks : v.command_class = "USER_CODE" }

\* What an alarm value reports: the two known alarm types and 0, which is
\* neither (and is falsy in Python).
AlarmData == {0, USER_CODE_ENTERED, TOO_MANY_FAILED_ATTEMPTS}

\* lastReceivedMessage of a node: nine bytes, the last one the status byte.
Message(b) == [i \in 1..(USER_CODE_STATUS_BYTE + 1) |->
                 IF i = USER_CODE_STATUS_BYTE + 1 THEN b ELSE 0]
Messages == { Message(0), Message(1) }

\* The index the services are called with: the slot that every network
\* has, empty until a lock's value is registered at it.
Indexes == {5}

\* Code points of the payloads: '0', '9', 'a'.
CodePoints == {48, 57, 97}
Payloads == UNION { [1..k -> CodePoints] : k \in 0..MaxLen }

\* Name tables the file may hold at startup.
StoredNames == {"Bob"}
NameTables == [{5} -> StoredNames]

----------------------------------------------------------------------------
VARIABLES
    network,    \* the values that exist on the Z-Wave network
    values,     \* self.values: index -> list of user-code values (a
                \* defaultdict: every index has a list, empty at first)
    available,  \* the .available attribute of each user-code value
    alarms,     \* self.alarms: nodeid -> [alarmtype, alarmval]
    names,      \* self.names: index -> name
    persisted,  \* the content of lockinfo.yaml
    last,       \* the handler that ran last and what it sent outward
    killed,     \* None while the process runs; once it was killed inside
                \* store_name_info, the file before and the file intended
    reported,   \* history: the alarm sub-fields each node has ever reported
    half,       \* history: per node, the sub-field report that was its last
                \* event and found its alarm buffer fully absent
    again,      \* history: the last event was a user-code report that
                \* repeated the event before it
    mutated,    \* history: self.names has changed since startup
    unmatched   \* history: per node and sub-field, the reports delivered
                \* minus the activity events emitted for the node (at
                \* least: reports that find the node without a buffer and
                \* reports beyond MaxUnmatched are not counted)

vars == << network, values, available, alarms, names, persisted, last,
           killed, reported, half, again, mutated, unmatched >>

\* An empty dict.
EmptyDict == [k \in {} |-> None]

\* Nothing sent outward: writes to user-code values (v.data = ...), log
\* lines, calls of lockactivity, logbook entries, persistent notifications,
\* rewrites of the name file.
NoOutput == [writes |-> << >>, log |-> << >>, activity |-> << >>,
             logbook |-> << >>, alerts |-> << >>, stores |-> 0]

Ran(ev, out) == [ev |-> ev, writes |-> out.writes, log |-> out.log,
                 activity |-> out.activity, logbook |-> out.logbook,
                 alerts |-> out.alerts, stores |-> out.stores]

Line(level, msg) == [level |-> level, msg |-> msg]

----------------------------------------------------------------------------
(* __init__ and load_name_info: the file is missing (names stays empty),   *)
(* unreadable (a warning, names stays empty) or holds a name table.        *)

\* The file: missing, unreadable, or holding a name table.
NoFile == [kind |-> "missing", table |-> EmptyDict]
Corrupt == [kind |-> "corrupt", table |-> EmptyDict]
Stored(table) == [kind |-> "table", table |-> table]

load_name_info(file) ==
    IF file.kind = "table" THEN file.table ELSE EmptyDict

Init ==
    /\ network \in Networks
    /\ persisted \in {NoFile, Corrupt} \cup { Stored(t) : t \in NameTables }
    /\ names = load_name_info(persisted)
    /\ values = [i \in Indexes \cup {v.index : v \in UserCodeValues} |-> << >>]
    /\ available = [v \in UserCodeValues |-> None]
    /\ alarms = EmptyDict
    /\ last = Ran([op |-> "setup"], NoOutput)
    /\ killed = None
    /\ reported = [n \in Nodes |-> {}]
    /\ half = [n \in Nodes |-> None]
    /\ again = FALSE
    /\ mutated = FALSE
    /\ unmatched = [n \in Nodes |-> << 0, 0 >>]

----------------------------------------------------------------------------
(* setcode and clearcode *)

\* range(a, b) of Python: a up to b - 1.
PyRange(a, b) == a .. (b - 1)

\* A validation that looks at the first character only.
ValidCode_first(value) ==
    value = << >> \/ value[1] \in PyRange(48, 57)

\* all([ord(x) in range(0x30, 0x39) for x in value])
ValidCode(value) == \A k \in DOMAIN value : value[k] \in PyRange(48, 57)

\* A loop that stops after the first lock.
WriteAll_first(index, data) ==
    IF values[index] = << >> THEN << >>
    ELSE << << values[index][1], data >> >>

\* for v in self.values[index]: v.data = data
WriteAll(index, data) ==
    [k \in 1..Len(values[index]) |-> << values[index][k], data >>]

\* A setcode that files the name it was given under the slot.
setcode_named(index, name, value) ==
    /\ last' = Ran([op |-> "setcode", index |-> index, name |-> name,
                    value |-> value],
                   IF ~ValidCode(value)
                   THEN [NoOutput EXCEPT
                           !.log = << Line("warning", "invalid_code") >>]
                   ELSE [NoOutput EXCEPT !.writes = WriteAll(index, value)])
    /\ names' = IF ValidCode(value)
                THEN [j \in DOMAIN names \cup {index} |->
                        IF j = index THEN name ELSE names[j]]
                ELSE names
    /\ UNCHANGED << values, available, alarms, persisted >>
    /\ UNCHANGED << network, killed, reported, half >>
    /\ again' = FALSE
    /\ UNCHANGED << mutated, unmatched >>

setcode(index, name, value) ==
    /\ last' = Ran([op |-> "setcode", index |-> index, name |-> name,
                    value |-> value],
                   IF ~ValidCode(value)
                   THEN [NoOutput EXCEPT
                           !.log = << Line("warning", "invalid_code") >>]
                   ELSE [NoOutput EXCEPT !.writes = WriteAll(index, value)])
    /\ UNCHANGED << values, available, alarms, names, persisted >>
    /\ UNCHANGED << network, killed, reported, half >>
    /\ again' = FALSE
    /\ UNCHANGED << mutated, unmatched >>

\* "\0\0\0\0"
ClearSentinel == << 0, 0, 0, 0 >>

clearcode(index) ==
    /\ last' = Ran([op |-> "clearcode", index |-> index],
                   [NoOutput EXCEPT !.writes = WriteAll(index, ClearSentinel)])
    /\ UNCHANGED << values, available, alarms, names, persisted >>
    /\ UNCHANGED << network, killed, reported, half >>
    /\ again' = FALSE
    /\ UNCHANGED << mutated, unmatched >>

----------------------------------------------------------------------------
(* lockcodestatus: the new name table, the log lines and the number of     *)
(* store_name_info calls, given the registry, the availabilities and the   *)
(* name table.                                                             *)

thelist(vals, avail, index) ==
    [k \in 1..Len(vals[index]) |-> avail[vals[index][k]]]

PlaceholderName(index) == "Unamed Entry " \o ToString(index)

DictDel(d, k) == [j \in DOMAIN d \ {k} |-> d[j]]
DictSet(d, k, x) == [j \in DOMAIN d \cup {k} |-> IF j = k THEN x ELSE d[j]]

\* A reconciler that rewrites the file whenever the locks agree.
lockcodestatus_always(index, vals, avail, nm) ==
    LET l == thelist(vals, avail, index)
        theset == Range(l)
        same == [names |-> nm, log |-> << >>, stores |-> 0]
    IN  IF None \in theset THEN same
        ELSE IF Cardinality(theset) # 1
        THEN [same EXCEPT !.log = << Line("warning", "locks_disagree") >>]
        ELSE IF l[1] = Some(TRUE)
        THEN [same EXCEPT !.names = DictDel(nm, index), !.stores = 1]
        ELSE [same EXCEPT
                !.names = IF index \in DOMAIN nm THEN nm
                          ELSE DictSet(nm, index, PlaceholderName(index)),
                !.stores = 1]

\* A reconciler that deletes a name without rewriting the file.
lockcodestatus_lazy(index, vals, avail, nm) ==
    LET l == thelist(vals, avail, index)
        theset == Range(l)
        same == [names |-> nm, log |-> << >>, stores |-> 0]
    IN  IF None \in theset THEN same
        ELSE IF Cardinality(theset) # 1
        THEN [same EXCEPT !.log = << Line("warning", "locks_disagree") >>]
        ELSE IF l[1] = Some(TRUE)
        THEN [same EXCEPT !.names = DictDel(nm, index)]
        ELSE IF index \notin DOMAIN nm
             THEN [same EXCEPT
                     !.names = DictSet(nm, index, PlaceholderName(index)),
                     !.stores = 1]
             ELSE same

\* A reconciler that never deletes a name.
lockcodestatus_keep(index, vals, avail, nm) ==
    LET l == thelist(vals, avail, index)
        theset == Range(l)
        same == [names |-> nm, log |-> << >>, stores |-> 0]
    IN  IF None \in theset THEN same
        ELSE IF Cardinality(theset) # 1
        THEN [same EXCEPT !.log = << Line("warning", "locks_disagree") >>]
        ELSE IF l[1] = Some(TRUE) THEN same
        ELSE IF index \notin DOMAIN nm
             THEN [same EXCEPT
                     !.names = DictSet(nm, index, PlaceholderName(index)),
                     !.stores = 1]
             ELSE same

\* A reconciler that takes the first lock's word when the locks disagree.
lockcodestatus_first(index, vals, avail, nm) ==
    LET l == thelist(vals, avail, index)
        theset == Range(l)
        same == [names |-> nm, log |-> << >>, stores |-> 0]
    IN  IF None \in theset \/ theset = {} THEN same
        ELSE IF l[1] = Some(TRUE)
        THEN IF index \in DOMAIN nm
             THEN [same EXCEPT !.names = DictDel(nm, index), !.stores = 1]
             ELSE same
        ELSE IF index \notin DOMAIN nm
             THEN [same EXCEPT
                     !.names = DictSet(nm, index, PlaceholderName(index)),
                     !.stores = 1]
             ELSE same

lockcodestatus(index, vals, avail, nm) ==
    LET l == thelist(vals, avail, index)
        theset == Range(l)
        same == [names |-> nm, log |-> << >>, stores |-> 0]
    IN  IF None \in theset THEN same
        ELSE IF Cardinality(theset) # 1
        THEN [same EXCEPT !.log = << Line("warning", "locks_disagree") >>]
        ELSE IF l[1] = Some(TRUE)
        THEN IF index \in DOMAIN nm
             THEN [same EXCEPT !.names = DictDel(nm, index), !.stores = 1]
             ELSE same
        ELSE IF index \notin DOMAIN nm
             THEN [same EXCEPT
                     !.names = DictSet(nm, index, PlaceholderName(index)),
                     !.stores = 1]
             ELSE same

----------------------------------------------------------------------------
(* lockactivity: what a decoded report sends outward *)

\* A dispatcher that looks at the alarm value instead of the alarm type.
lockactivity_byval(nodeid, atype, aval) ==
    LET called == [NoOutput EXCEPT !.activity = << << nodeid, atype, aval >> >>]
    IN  IF aval = USER_CODE_ENTERED
        THEN [called EXCEPT !.logbook = << << nodeid, aval >> >>]
        ELSE IF aval = TOO_MANY_FAILED_ATTEMPTS
        THEN [called EXCEPT
                !.alerts = << << "Potential Prowler", nodeid >> >>,
                !.log = << Line("warning", "invalid_codes") >>]
        ELSE [called EXCEPT !.log = << Line("warning", "unknown_alarm") >>]

lockactivity(nodeid, atype, aval) ==
    LET called == [NoOutput EXCEPT !.activity = << << nodeid, atype, aval >> >>]
    IN  IF atype = USER_CODE_ENTERED
        THEN [called EXCEPT !.logbook = << << nodeid, aval >> >>]
        ELSE IF atype = TOO_MANY_FAILED_ATTEMPTS
        THEN [called EXCEPT
                !.alerts = << << "Potential Prowler", nodeid >> >>,
                !.log = << Line("warning", "invalid_codes") >>]
        ELSE [called EXCEPT !.log = << Line("warning", "unknown_alarm") >>]

----------------------------------------------------------------------------
(* The history of a notification about one of node n's values, kept for    *)
(* the properties below; the handlers never read it.                       *)

IsSubField(ev) ==
    /\ ev.op = "valuechanged"
    /\ ev.value.command_class = "ALARM"
    /\ ev.value.index \in {0, 1}

Record(ev) ==
    LET n == ev.value.parent_id
    IN  /\ reported' = IF IsSubField(ev)
                       THEN [reported EXCEPT ![n] = @ \cup {ev.value.index}]
                       ELSE reported
        /\ half' = [half EXCEPT ![n] =
                      IF /\ IsSubField(ev)
                         /\ n \in DOMAIN alarms
                         /\ alarms[n] = << None, None >>
                      THEN Some(<< ev.value.index, ev.data >>)
                      ELSE None]
        /\ again' = /\ ev.op = "valuechanged"
                    /\ ev.value.command_class = "USER_CODE"
                    /\ last.ev.op = ev.op
                    /\ last.ev = ev
        /\ unmatched' =
               IF IsSubField(ev) /\ n \in DOMAIN alarms
               THEN [unmatched EXCEPT ![n] =
                       [k \in 1..2 |->
                          LET counted == IF k = ev.value.index + 1
                                            /\ @[k] < MaxUnmatched
                                         THEN @[k] + 1 ELSE @[k]
                          IN  counted - Len(last'.activity)]]
               ELSE unmatched

----------------------------------------------------------------------------
(* valueadded *)

\* A buffer that starts with zeros.
NewBuffer_zeros == << Some(0), Some(0) >>

\* [None]*2
NewBuffer == << None, None >>

\* A test that takes every user-code index of a lock.
Qualifies_anyindex(node, value) ==
    /\ generic(node) = "ENTRY_CONTROL"
    /\ value.command_class = "USER_CODE"

Qualifies(node, value) ==
    /\ generic(node) = "ENTRY_CONTROL"
    /\ value.command_class = "USER_CODE"
    /\ value.index \notin NOT_USER_CODE_INDEXES

valueadded(node, value) ==
    /\ last' = Ran([op |-> "valueadded", node |-> node, value |-> value],
                   NoOutput)
    /\ IF Qualifies(node, value)
       THEN /\ available' = [available EXCEPT ![value] = None]
            /\ values' = [values EXCEPT ![value.index] = Append(@, value)]
            /\ alarms' = DictSet(alarms, value.parent_id, NewBuffer)
       ELSE UNCHANGED << values, available, alarms >>
    /\ UNCHANGED << network, names, persisted, killed, mutated >>
    /\ Record([op |-> "valueadded", node |-> node, value |-> value])

----------------------------------------------------------------------------
(* valuechanged *)

\* not lastReceivedMessage[USER_CODE_STATUS_BYTE]
StatusAvailable(msg) == msg[USER_CODE_STATUS_BYTE + 1] = 0

Registered(value) == value \in Range(values[value.index])

\* The user-code branch: refresh the value's availability, then reconcile.
\* The attribute is kept for the values in self.values only: lockcodestatus
\* reads no other (line 114), and valueadded sets it to None when it
\* registers a value (line 155), so what the branch writes on a value that
\* is in no list is never read.
UserCodeChanged(ev) ==
    LET avail == IF Registered(ev.value)
                 THEN [available EXCEPT
                         ![ev.value] = Some(StatusAvailable(ev.msg))]
                 ELSE available
        r == lockcodestatus(ev.value.index, values, avail, names)
    IN  /\ available' = avail
        /\ names' = r.names
        /\ persisted' = IF r.stores > 0 THEN Stored(r.names) ELSE persisted
        /\ last' = Ran(ev, [NoOutput EXCEPT !.log = r.log, !.stores = r.stores])
        /\ mutated' = (mutated \/ r.names # names)
        /\ UNCHANGED << values, alarms >>

\* store_name_info opens the file with mode 'w', which empties it, then
\* writes the comment line and the dump, and closes it on leaving the with
\* block.  A process killed in between leaves the old file (open not yet
\* run), an empty file, a file cut short, or the new file (all written and
\* flushed).
Truncated == [kind |-> "empty", table |-> EmptyDict]
CutShort == [kind |-> "partial", table |-> EmptyDict]

KilledInStore(old, table) == { old, Truncated, CutShort, Stored(table) }

\* The user-code branch up to a store_name_info that does not return.
store_name_info_killed(ev) ==
    LET avail == IF Registered(ev.value)
                 THEN [available EXCEPT
                         ![ev.value] = Some(StatusAvailable(ev.msg))]
                 ELSE available
        r == lockcodestatus(ev.value.index, values, avail, names)
    IN  /\ r.stores > 0
        /\ available' = avail
        /\ names' = r.names
        /\ persisted' \in KilledInStore(persisted, r.names)
        /\ killed' = Some([before |-> persisted, after |-> Stored(r.names)])
        /\ last' = Ran(ev, [NoOutput EXCEPT !.log = r.log, !.stores = r.stores])
        /\ mutated' = TRUE
        /\ again' = FALSE
        /\ UNCHANGED << network, values, alarms, reported, half, unmatched >>

\* all(bits): a field that holds 0 counts as absent.
BufferComplete_truthy(bits) ==
    \A k \in DOMAIN bits : bits[k] # None /\ bits[k] # Some(0)

\* None not in bits
BufferComplete(bits) == None \notin Range(bits)

\* An alarm branch whose exception handler empties the buffer.
AlarmChanged_drop(ev) ==
    LET n == ev.value.parent_id
        bits == alarms[n]
    IN  IF ev.value.index \notin {0, 1}
        THEN /\ last' = Ran(ev, [NoOutput EXCEPT
                                   !.log = << Line("error", "bad_data") >>])
             /\ alarms' = DictSet(alarms, n, << None, None >>)
        ELSE LET stored == [bits EXCEPT ![ev.value.index + 1] = Some(ev.data)]
             IN  IF BufferComplete(stored)
                 THEN /\ last' = Ran(ev, lockactivity(n, stored[1][1],
                                                      stored[2][1]))
                      /\ alarms' = DictSet(alarms, n, << None, None >>)
                 ELSE /\ last' = Ran(ev, NoOutput)
                      /\ alarms' = DictSet(alarms, n, stored)

\* An alarm branch that, after a dispatch, resets only the field it stored.
AlarmChanged_half(ev) ==
    LET n == ev.value.parent_id
        bits == alarms[n]
    IN  IF ev.value.index \notin {0, 1}
        THEN /\ last' = Ran(ev, [NoOutput EXCEPT
                                   !.log = << Line("error", "bad_data") >>])
             /\ UNCHANGED alarms
        ELSE LET stored == [bits EXCEPT ![ev.value.index + 1] = Some(ev.data)]
             IN  IF BufferComplete(stored)
                 THEN /\ last' = Ran(ev, lockactivity(n, stored[1][1],
                                                      stored[2][1]))
                      /\ alarms' = DictSet(alarms, n, bits)
                 ELSE /\ last' = Ran(ev, NoOutput)
                      /\ alarms' = DictSet(alarms, n, stored)

\* An alarm branch that dispatches a complete buffer and keeps it.
AlarmChanged_keep(ev) ==
    LET n == ev.value.parent_id
        bits == alarms[n]
    IN  IF ev.value.index \notin {0, 1}
        THEN /\ last' = Ran(ev, [NoOutput EXCEPT
                                   !.log = << Line("error", "bad_data") >>])
             /\ UNCHANGED alarms
        ELSE LET stored == [bits EXCEPT ![ev.value.index + 1] = Some(ev.data)]
             IN  /\ last' = Ran(ev, IF BufferComplete(stored)
                                    THEN lockactivity(n, stored[1][1],
                                                      stored[2][1])
                                    ELSE NoOutput)
                 /\ alarms' = DictSet(alarms, n, stored)

\* The alarm branch, for a node that has a buffer.  bits[value.index] raises
\* IndexError outside the two elements (a value index is an unsigned byte),
\* which the handler catches and logs.
AlarmChanged(ev) ==
    LET n == ev.value.parent_id
        bits == alarms[n]
    IN  IF ev.value.index \notin {0, 1}
        THEN /\ last' = Ran(ev, [NoOutput EXCEPT
                                   !.log = << Line("error", "bad_data") >>])
             /\ UNCHANGED alarms
        ELSE LET stored == [bits EXCEPT ![ev.value.index + 1] = Some(ev.data)]
             IN  IF BufferComplete(stored)
                 THEN /\ last' = Ran(ev, lockactivity(n, stored[1][1],
                                                      stored[2][1]))
                      /\ alarms' = DictSet(alarms, n, << None, None >>)
                 ELSE /\ last' = Ran(ev, NoOutput)
                      /\ alarms' = DictSet(alarms, n, stored)

\* A handler that gives a buffer to any node that sends an alarm report.
valuechanged_setdefault(value, data, msg) ==
    LET ev == [op |-> "valuechanged", value |-> value, data |-> data,
               msg |-> msg]
    IN  /\ IF value.command_class = "USER_CODE"
           THEN UserCodeChanged(ev)
           ELSE IF value.command_class = "ALARM"
                   /\ value.parent_id \in DOMAIN alarms
           THEN /\ AlarmChanged(ev)
                /\ UNCHANGED << values, available, names, persisted,
                                mutated >>
           ELSE /\ last' = Ran(ev, NoOutput)
                /\ alarms' = IF value.command_class = "ALARM"
                             THEN DictSet(alarms, value.parent_id, NewBuffer)
                             ELSE alarms
                /\ UNCHANGED << values, available, names, persisted,
                                mutated >>
        /\ Record(ev)
        /\ UNCHANGED << network, killed >>

valuechanged(value, data, msg) ==
    LET ev == [op |-> "valuechanged", value |-> value, data |-> data,
               msg |-> msg]
    IN  /\ IF value.command_class = "USER_CODE"
           THEN UserCodeChanged(ev)
           ELSE IF value.command_class = "ALARM"
                   /\ value.parent_id \in DOMAIN alarms
           THEN /\ AlarmChanged(ev)
                /\ UNCHANGED << values, available, names, persisted,
                                mutated >>
           ELSE /\ last' = Ran(ev, NoOutput)
                /\ UNCHANGED << values, available, alarms, names,
                                persisted, mutated >>
        /\ Record(ev)
        /\ UNCHANGED << network, killed >>

----------------------------------------------------------------------------
(* The host delivers the notifications and service calls one at a time.    *)
(* Each user-code value is announced once (valueadded), at any time; a     *)
(* user-code value reports with a status message, an alarm value with its  *)
(* data.                                                                   *)

Announced(value) ==
    /\ value \in UserCodeValues
    /\ value \in Range(values[value.index])

\* The process runs until it is killed.
Running == killed = None

ValueAdded ==
    /\ Running
    /\ \E value \in network :
        /\ ~Announced(value)
        /\ valueadded(value.parent_id, value)

UserCodeValueChanged ==
    /\ Running
    /\ \E value \in network, msg \in Messages :
        /\ value.command_class = "USER_CODE"
        /\ valuechanged(value, None, msg)

AlarmValueChanged ==
    /\ Running
    /\ \E value \in network, data \in AlarmData :
        /\ value.command_class = "ALARM"
        /\ valuechanged(value, data, Message(0))

SetUserCode ==
    /\ Running
    /\ \E index \in Indexes, value \in Payloads : setcode(index, "Ann", value)

ClearUserCode ==
    /\ Running
    /\ \E index \in Indexes : clearcode(index)

\* The process is killed (or the host loses power) inside store_name_info,
\* which a user-code report reached through lockcodestatus.
StoreInterrupted ==
    /\ Running
    /\ \E value \in network, msg \in Messages :
        /\ value.command_class = "USER_CODE"
        /\ store_name_info_killed([op |-> "valuechanged", value |-> value,
                                   data |-> None, msg |-> msg])

Next ==
    \/ ValueAdded
    \/ UserCodeValueChanged
    \/ AlarmValueChanged
    \/ SetUserCode
    \/ ClearUserCode
    \/ StoreInterrupted

Spec == Init /\ [][Next]_vars

----------------------------------------------------------------------------
(* Properties *)

\* The availabilities gathered at a slot, and the slot's verdict.
Gathered(i) == Range(thelist(values, available, i))
Unanimous(i) == None \notin Gathered(i) /\ Cardinality(Gathered(i)) = 1
Occupied(i) == Unanimous(i) /\ Gathered(i) = { Some(FALSE) }

\* The handler that ran last.
IsSetCode == last.ev.op = "setcode"
IsClearCode == last.ev.op = "clearcode"
IsUserCodeChange ==
    last.ev.op = "valuechanged" /\ last.ev.value.command_class = "USER_CODE"

\* Code points 0x30 to 0x39 inclusive.
AllDigits(value) == \A k \in DOMAIN value : value[k] \in 48..57

\* The data written to value v by the handler that ran last.
WrittenTo(v) == { w[2] : w \in { x \in Range(last.writes) : x[1] = v } }

Warned(msg) == [level |-> "warning", msg |-> msg] \in Range(last.log)

\* C1: at every slot with at least two registered observations whose
\* availabilities are all known and agree, a name exists iff the slot is
\* occupied.
C1_NameIffOccupied ==
    \A i \in DOMAIN values :
        (Len(values[i]) >= 2 /\ Unanimous(i))
            => ((i \in DOMAIN names) <=> Occupied(i))

\* Both locks report slot 5 available and the name loaded at startup is gone
\* from the table and from the file.
C1_Witness ==
    /\ Len(values[5]) = 2
    /\ Gathered(5) = { Some(TRUE) }
    /\ 5 \notin DOMAIN names
    /\ persisted = Stored(EmptyDict)

\* C2: setcode accepts every payload of ASCII digits '0'..'9' and writes it
\* to every observation registered at the slot.
C2_DigitsAccepted ==
    (IsSetCode /\ AllDigits(last.ev.value))
        => /\ ~Warned("invalid_code")
           /\ \A v \in Range(values[last.ev.index]) :
                 WrittenTo(v) = { last.ev.value }

\* C3: setcode with a payload that holds a non-digit writes to no
\* observation and leaves the name table and the name file as they were.
C3_NonDigitRejected ==
    [][ (last'.ev.op = "setcode" /\ ~AllDigits(last'.ev.value))
            => /\ last'.writes = << >>
               /\ names' = names
               /\ persisted' = persisted ]_vars

\* A payload of a digit followed by a letter was refused at a slot where
\* both locks are registered.
C3_Witness ==
    /\ IsSetCode
    /\ last.ev.value = << 48, 97 >>
    /\ Len(values[last.ev.index]) = 2
    /\ Warned("invalid_code")
    /\ last.writes = << >>

\* C4: clearcode writes four NUL bytes once to every observation registered
\* at the slot, and writes nothing else.
C4_ClearWritesAll ==
    IsClearCode
        => /\ \A v \in Range(values[last.ev.index]) :
                 WrittenTo(v) = { << 0, 0, 0, 0 >> }
           /\ \A w \in Range(last.writes) :
                 w[1] \in Range(values[last.ev.index])
           /\ Len(last.writes) = Len(values[last.ev.index])

\* Slot 5 was cleared on both locks while they reported it available and it
\* had no name.
C4_Witness ==
    /\ IsClearCode
    /\ last.ev.index = 5
    /\ Len(values[5]) = 2
    /\ Gathered(5) = { Some(TRUE) }
    /\ 5 \notin DOMAIN names
    /\ Len(last.writes) = 2

\* The step delivers sub-field i of node n.
SubFieldStep(n, i) ==
    /\ last'.ev.op = "valuechanged"
    /\ last'.ev.value = Value(n, "ALARM", i)

\* C5: a sub-field report that finds the buffer of a tracked node fully
\* absent emits nothing; when the node's next event is the report of the
\* other sub-field, that step emits exactly one event, (node, type, value),
\* and leaves the buffer fully absent.
C5_RoundTrip ==
    [][ \A n \in Nodes, i \in {0, 1} :
          /\ (SubFieldStep(n, i) /\ n \in DOMAIN alarms
                /\ alarms[n] = << None, None >>)
                => last'.activity = << >>
          /\ (SubFieldStep(n, i) /\ half[n] # None /\ half[n][1][1] = 1 - i)
                => LET t == IF i = 0 THEN last'.ev.data ELSE half[n][1][2]
                       v == IF i = 1 THEN last'.ev.data ELSE half[n][1][2]
                   IN  /\ last'.activity = << << n, t, v >> >>
                       /\ alarms'[n] = << None, None >> ]_vars

\* Sub-field 0 arrived last: the event carries the type it brought and the
\* value that arrived before it.
C5_Witness ==
    /\ last.ev.op = "valuechanged"
    /\ last.ev.value = Value(1, "ALARM", 0)
    /\ last.ev.data = TOO_MANY_FAILED_ATTEMPTS
    /\ last.activity = << << 1, TOO_MANY_FAILED_ATTEMPTS, USER_CODE_ENTERED >> >>
    /\ alarms[1] = << None, None >>

\* C6: no event is emitted for a node unless both of its sub-fields have
\* been reported.
C6_OneSubFieldNeverEmits ==
    \A e \in Range(last.activity) : reported[e[1]] = {0, 1}

\* Node 1 is tracked and has reported sub-field 0 more than once and never
\* sub-field 1.
C6_Witness ==
    /\ last.ev.op = "valuechanged"
    /\ last.ev.value = Value(1, "ALARM", 0)
    /\ 1 \in DOMAIN alarms
    /\ half[1] = None
    /\ reported[1] = {0}
    /\ last.activity = << >>

Warnings == { k \in DOMAIN last.log : last.log[k].level = "warning" }

\* C7: a decoded report of type 16 makes one logbook entry and no alert; of
\* type 96 one alert and one warning and no logbook entry; of any other type
\* a warning only.
C7_Dispatch ==
    \A e \in Range(last.activity) :
        /\ e[2] = 16
             => Len(last.logbook) = 1 /\ last.alerts = << >>
        /\ e[2] = 96
             => /\ Len(last.alerts) = 1
                /\ Cardinality(Warnings) = 1
                /\ last.logbook = << >>
        /\ e[2] \notin {16, 96}
             => /\ last.alerts = << >>
                /\ last.logbook = << >>
                /\ Warnings = DOMAIN last.log
                /\ Warnings # {}

\* A report of too many failed attempts raised the alert.
C7_Witness ==
    /\ last.activity = << << 1, 96, 0 >> >>
    /\ last.alerts = << << "Potential Prowler", 1 >> >>

\* The step is a value-changed notification of a user-code value at slot i.
UserCodeStep(i) ==
    /\ last'.ev.op = "valuechanged"
    /\ last'.ev.value.command_class = "USER_CODE"
    /\ last'.ev.value.index = i

\* C8: a notification that leaves a slot without a name unanimously
\* occupied creates the name "Unnamed Entry <slot>" and rewrites the file.
C8_PlaceholderCreated ==
    [][ \A i \in DOMAIN values :
          (UserCodeStep(i) /\ Occupied(i)' /\ i \notin DOMAIN names)
              => /\ i \in DOMAIN names'
                 /\ names'[i] = "Unnamed Entry " \o ToString(i)
                 /\ persisted' = Stored(names') ]_vars

\* C9: the name table and the name file change only in a value-changed
\* notification of a user-code value that leaves the availabilities at its
\* slot all known and unanimous.
C9_MutationNeedsUnanimity ==
    [][ (names' # names \/ persisted' # persisted)
            => \E i \in DOMAIN values : UserCodeStep(i) /\ Unanimous(i)' ]_vars

\* One lock reports slot 5 occupied, the other available: a warning, and
\* the name loaded at startup stays.
C9_Witness ==
    /\ IsUserCodeChange
    /\ last.ev.value.index = 5
    /\ Gathered(5) = { Some(TRUE), Some(FALSE) }
    /\ Warned("locks_disagree")
    /\ last.stores = 0
    /\ 5 \in DOMAIN names /\ names[5] = "Bob"
    /\ persisted = Stored(names)

\* C10: the reconciler warns that the locks disagree iff every availability
\* gathered at the slot is known and they take more than one value.
C10_DisagreeWarning ==
    IsUserCodeChange
        => (Warned("locks_disagree")
              <=> /\ None \notin Gathered(last.ev.value.index)
                  /\ Cardinality(Gathered(last.ev.value.index)) > 1)

----------------------------------------------------------------------------
\* C11: the same availability report for the same value, delivered a second
\* time with no other event in between, changes neither the name table nor
\* the file, and rewrites the file zero times.
C11_Idempotent ==
    [][ again' => /\ names' = names
                  /\ persisted' = persisted
                  /\ last'.stores = 0 ]_vars

\* A report that made the locks agree on "occupied" and created the name has
\* been delivered again.
C11_Witness ==
    /\ again
    /\ last.ev.value = Value(1, "USER_CODE", 5)
    /\ Len(values[5]) = 2
    /\ Occupied(5)
    /\ 5 \in DOMAIN names
    /\ names[5] = PlaceholderName(5)
    /\ last.stores = 0
    /\ persisted = Stored(names)

----------------------------------------------------------------------------
\* The fields of a buffer that hold a value.
Filled(bits) == { k \in DOMAIN bits : bits[k] # None }

\* C12: between notifications every tracked device's alarm buffer holds at
\* most one value: a complete buffer is dispatched and reset inside the
\* handler that completed it.
C12_NeverComplete ==
    \A n \in DOMAIN alarms : Cardinality(Filled(alarms[n])) <= 1

\* The report that completed lock 1's buffer has been handled: the event went
\* out and the buffer is empty again.
C12_Witness ==
    /\ IsSubField(last.ev)
    /\ last.ev.value.parent_id = 1
    /\ last.activity = << << 1, USER_CODE_ENTERED, 0 >> >>
    /\ alarms[1] = << None, None >>

----------------------------------------------------------------------------
\* An alarm report of node n is the event of this step.
AlarmStep(n) ==
    /\ last'.ev.op = "valuechanged"
    /\ last'.ev.value.command_class = "ALARM"
    /\ last'.ev.value.parent_id = n

\* C13: an alarm report for a device outside the tracked set is ignored: no
\* activity event, no buffer created, and every buffer, the registry and the
\* name table as before.
C13_UntrackedIgnored ==
    [][ \A n \in Nodes :
            AlarmStep(n) /\ n \notin DOMAIN alarms =>
                /\ last'.activity = << >>
                /\ alarms' = alarms
                /\ values' = values
                /\ names' = names
                /\ persisted' = persisted ]_vars

\* The non-lock node has sent a sub-field report while the two locks are
\* tracked; it has no buffer and nothing went out.
C13_Witness ==
    /\ last.ev.op = "valuechanged"
    /\ last.ev.value = Value(3, "ALARM", 0)
    /\ last.ev.data = USER_CODE_ENTERED
    /\ DOMAIN alarms = {1, 2}
    /\ last.activity = << >>
    /\ reported[3] = {0}

----------------------------------------------------------------------------
\* C14: value-discovered registers a value exactly when its device is a
\* generic entry-control device, its command class is user-code and its
\* index is none of 0, 254, 255.  A value that qualifies is appended to its
\* slot's list with availability unknown and its device becomes tracked; one
\* that does not changes neither the registry nor the tracked set.  So no
\* list ever holds a value at 0, 254 or 255.
C14_Registration ==
    /\ [](\A i \in DOMAIN values : \A k \in DOMAIN values[i] :
             values[i][k].index \notin {0, 254, 255})
    /\ [][ last'.ev.op = "valueadded" =>
             LET v == last'.ev.value
             IN  IF /\ last'.ev.node \in Locks
                    /\ v.command_class = "USER_CODE"
                    /\ v.index \notin {0, 254, 255}
                 THEN /\ values' = [values EXCEPT ![v.index] = Append(@, v)]
                      /\ available'[v] = None
                      /\ DOMAIN alarms' = DOMAIN alarms \cup {v.parent_id}
                 ELSE /\ values' = values
                      /\ DOMAIN alarms' = DOMAIN alarms ]_vars

\* Lock 2's value at the reserved index 254 has been discovered: no list
\* took it and lock 2 is not tracked, while lock 1's slot-5 value is
\* registered and lock 1 tracked.
C14_Witness ==
    /\ last.ev.op = "valueadded"
    /\ last.ev.value = Value(2, "USER_CODE", 254)
    /\ values[254] = << >>
    /\ values[5] = << Value(1, "USER_CODE", 5) >>
    /\ available[Value(1, "USER_CODE", 5)] = None
    /\ DOMAIN alarms = {1}

----------------------------------------------------------------------------
----------------------------------------------------------------------------
\* C16: the file is rewritten inside every handler that changes the name
\* table: in every state between events, once the name table has changed
\* since startup, the file holds exactly the name table.
C16_FileFollowsNames ==
    mutated /\ Running => persisted = Stored(names)

\* The name loaded at startup has been deleted after the lock reported the
\* slot available, and the file holds the empty table.
C16_Witness ==
    /\ mutated
    /\ Running
    /\ last.stores = 1
    /\ last.ev.op = "valuechanged"
    /\ StatusAvailable(last.ev.msg)
    /\ names = EmptyDict
    /\ persisted = Stored(EmptyDict)

----------------------------------------------------------------------------
\* C17: a process killed at any point inside the save leaves the file holding
\* either the complete previous content or the complete new table, never an
\* empty or partly written file.
C17_CrashKeepsData ==
    ~Running => persisted \in { killed[1].before, killed[1].after }

----------------------------------------------------------------------------
\* C18: once a device is tracked, its alarm buffer changes only in a step
\* that handles an alarm report of that device; the discovery of another
\* qualifying value of the device leaves the buffer, half-filled or not, as
\* it was.
C18_BufferOnlyByReports ==
    [][ \A n \in DOMAIN alarms :
            alarms'[n] # alarms[n] => AlarmStep(n) ]_vars

----------------------------------------------------------------------------
----------------------------------------------------------------------------
\* C20: for every tracked device the activity events emitted so far are at
\* most as many as the sub-field 0 reports and at most as many as the
\* sub-field 1 reports delivered for it so far: for either sub-field, the
\* reports minus the events is never negative.
C20_EventsBoundedByReports ==
    \A n \in DOMAIN alarms :
        unmatched[n][1] >= 0 /\ unmatched[n][2] >= 0

\* Lock 1 has emitted an event on a value report after two type reports, the
\* second of which replaced the first: one type report stays unmatched.
C20_Witness ==
    /\ 1 \in DOMAIN alarms
    /\ last.ev.op = "valuechanged"
    /\ last.ev.value = Value(1, "ALARM", 1)
    /\ Len(last.activity) = 1
    /\ unmatched[1] = << 1, 0 >>

====
